---- MODULE Spec2Model ----
(***************************************************************************)
(* A model of robotpy_build/hooks.py: the Hooks object that lowers parsed  *)
(* C++ declarations (functions, classes, enums) plus their override data   *)
(* into the records the template renderer consumes.                        *)
(*                                                                         *)
(* Python strings on which the code works character by character (names,   *)
(* prefixes, qualified names) are sequences of one-character strings;      *)
(* strings that are only compared or concatenated (types, parameter names, *)
(* generated statements) are TLA+ strings.  A dict whose optional keys the *)
(* code tests with .get() is a record whose DOMAIN may lack the key.       *)
(* Docstrings and parameter default values are not modelled.               *)
(***************************************************************************)
EXTENDS Integers, Sequences, FiniteSets, TLC

VARIABLES
    rawdata,          \* Hooks.rawdata: the loaded configuration (strip_prefixes)
    types,            \* Hooks.types: the type-caster registry
    class_hierarchy,  \* Hooks.class_hierarchy: qualified name -> bases
    subpackages,      \* Hooks.subpackages: subpackage -> module variable
    header,           \* the parsed declarations not processed yet, with their override data
    decl,             \* the declaration processed last, as the hook left it
    raised            \* the exception the last hook raised, or NoError

vars == <<rawdata, types, class_hierarchy, subpackages, header, decl, raised>>

(***************************************************************************)
(* Bounds of the model.                                                    *)
(***************************************************************************)
MaxParams == 2
MaxNameLen == 3

(***************************************************************************)
(* Python built-ins.                                                       *)
(***************************************************************************)
NoError == [type |-> "none"]
None == [none |-> TRUE]
\* a value of an Optional field that is not None
Some(v) == [some |-> v]

Min(a, b) == IF a < b THEN a ELSE b

\* s[:n] and s[n:] of Python, on a sequence
Take(s, n) == SubSeq(s, 1, Min(n, Len(s)))
Drop(s, n) == SubSeq(s, n + 1, Len(s))

\* s.startswith(pfx)
StartsWith(s, pfx) == Len(pfx) <= Len(s) /\ SubSeq(s, 1, Len(pfx)) = pfx

UpperChars == <<"A", "B", "C", "D", "E", "F", "G", "H", "I", "J", "K", "L", "M",
                "N", "O", "P", "Q", "R", "S", "T", "U", "V", "W", "X", "Y", "Z">>
LowerChars == <<"a", "b", "c", "d", "e", "f", "g", "h", "i", "j", "k", "l", "m",
                "n", "o", "p", "q", "r", "s", "t", "u", "v", "w", "x", "y", "z">>

Range(s) == {s[i] : i \in DOMAIN s}

\* str.isupper(): at least one cased character, and every cased character is upper case
IsUpper(s) ==
    /\ \E i \in DOMAIN s : s[i] \in Range(UpperChars) \cup Range(LowerChars)
    /\ \A i \in DOMAIN s : s[i] \notin Range(LowerChars)

\* str.lower() of one character
LowerChar(c) ==
    IF c \in Range(UpperChars)
    THEN LowerChars[CHOOSE i \in DOMAIN UpperChars : UpperChars[i] = c]
    ELSE c

\* "x" * n
RECURSIVE Rep(_, _)
Rep(s, n) == IF n <= 0 THEN "" ELSE s \o Rep(s, n - 1)

\* sep.join(xs) over strings
RECURSIVE Join(_, _)
Join(sep, xs) ==
    IF xs = <<>> THEN ""
    ELSE IF Len(xs) = 1 THEN xs[1]
    ELSE xs[1] \o sep \o Join(sep, Tail(xs))

\* dict.get(key, default) on a record
Get(d, k, default) == IF k \in DOMAIN d THEN d[k] ELSE default

\* dict.update(other) on records
Update(d, other) ==
    [k \in DOMAIN d \cup DOMAIN other |-> IF k \in DOMAIN other THEN other[k] ELSE d[k]]

\* truthiness of a Python int
Truthy(n) == n # 0

(***************************************************************************)
(* An insertion-ordered dict: a sequence of <<key, value>> pairs with      *)
(* distinct keys.                                                          *)
(***************************************************************************)
DictKeys(d) == [i \in DOMAIN d |-> d[i][1]]
DictHas(d, k) == \E i \in DOMAIN d : d[i][1] = k
DictGet(d, k) == d[CHOOSE i \in DOMAIN d : d[i][1] = k][2]
\* d[k] = v: an existing key keeps its place
DictSet(d, k, v) ==
    IF DictHas(d, k)
    THEN [i \in DOMAIN d |-> IF d[i][1] = k THEN <<k, v>> ELSE d[i]]
    ELSE Append(d, <<k, v>>)
\* the dict left by d.pop(k, None)
DictPop(d, k) == SelectSeq(d, LAMBDA e : e[1] # k)

(***************************************************************************)
(* _gen_int_types / _int32_types                                           *)
(***************************************************************************)
_int32_types ==
    {i \o j \o k \o "_t" : i \in {"int", "uint"}, j \in {"", "_fast", "_least"},
                           k \in {"8", "16", "32", "64"}}
    \cup {"intmax_t", "uintmax_t"}

_rvp_map ==
    [TAKE_OWNERSHIP |-> ", py::return_value_policy::take_ownership",
     COPY |-> ", py::return_value_policy::copy",
     MOVE |-> ", py::return_value_policy::move",
     REFERENCE |-> ", py::return_value_policy::reference",
     REFERENCE_INTERNAL |-> ", py::return_value_policy::reference_internal",
     AUTOMATIC |-> "",
     AUTOMATIC_REFERENCE |-> ", py::return_value_policy::automatic_reference"]

(***************************************************************************)
(* Hooks._set_name: the rename wins; otherwise the first configured prefix *)
(* the name starts with is cut off, once.                                  *)
(***************************************************************************)
\* the loop without its break: every later prefix is cut off as well
RECURSIVE StripEvery(_, _)
StripEvery(name, sp) ==
    IF sp = <<>> THEN name
    ELSE IF StartsWith(name, Head(sp)) THEN StripEvery(Drop(name, Len(Head(sp))), Tail(sp))
    ELSE StripEvery(name, Tail(sp))

RECURSIVE StripFirst(_, _)
StripFirst(name, sp) ==
    IF sp = <<>> THEN name
    ELSE IF StartsWith(name, Head(sp)) THEN Drop(name, Len(Head(sp)))
    ELSE StripFirst(name, Tail(sp))

_set_name(raw, name, data) ==
    IF data.rename # <<>> THEN data.rename
    ELSE StripFirst(name, raw.strip_prefixes)

(***************************************************************************)
(* Hooks._function_hook, the loop body over fn["parameters"] (one          *)
(* parameter).  st carries the locals of _function_hook and the registry;  *)
(* i is the 1-based position (Python's i + 1).  The lists x_all_params,    *)
(* x_in_params, x_out_params and x_temps alias the parameter dicts, so     *)
(* they hold positions in fn["parameters"].                                *)
(***************************************************************************)
ParamTypeLenIgnored(p, bufinfo, buflen) ==
    IF bufinfo # None THEN "in"
    ELSE IF buflen # None THEN "ignored"
    ELSE IF Get(p, "force_out", FALSE)
            \/ (Truthy(p.pointer) /\ ~Truthy(p.constant) /\ p.fundamental) THEN "out"
    ELSE IF Truthy(p.array) THEN "out"
    ELSE "in"

ParamType(p, bufinfo, buflen) ==
    IF bufinfo # None THEN "in"
    ELSE IF buflen # None THEN (IF Truthy(p.pointer) THEN "out" ELSE "ignored")
    ELSE IF Get(p, "force_out", FALSE)
            \/ (Truthy(p.pointer) /\ ~Truthy(p.constant) /\ p.fundamental) THEN "out"
    ELSE IF Truthy(p.array) THEN "out"
    ELSE "in"

\* lines 313-321: whether p goes on the list of the given kind ("all", "in", "out")
ExposedAsIgnoringIgnore(p, ptype, list) == list = "all" \/ ptype = list

ExposedAs(p, ptype, list) ==
    ~Get(p, "ignore", FALSE) /\ (list = "all" \/ ptype = list)

\* lines 230-232
WithFundamental(p) ==
    IF p.raw_type \in _int32_types
    THEN Update(p, [fundamental |-> TRUE, unresolved |-> FALSE])
    ELSE p

\* lines 234-235: "param%s" % i, i being Python's index
WithName(p, i) ==
    IF p.name = "" THEN [p EXCEPT !.name = "param" \o ToString(i - 1)] ELSE p

\* lines 236-238
WithType(p) ==
    Update(p, [x_type |-> Get(p, "enum", p.raw_type),
               x_callname |-> p.name, x_retname |-> p.name])

\* lines 240-242
WithOverride(p, param_override) ==
    IF p.name \in DOMAIN param_override THEN Update(p, param_override[p.name]) ELSE p

\* line 244 (no parameter of the model has a default: lines 246-248 do not run)
WithPyArg(p) == Update(p, [x_pyarg |-> "py::arg(\"" \o p.name \o "\")"])

\* lines 252-253: dict.pop(name, None), the value popped
Popped(d, name) == IF DictHas(d, name) THEN DictGet(d, name) ELSE None

\* lines 255-311: what the parameter's role does to the parameter
WithCall(p, bufinfo, buflen) ==
    IF bufinfo # None
    THEN Update(p, [constant |-> 1, reference |-> 1, pointer |-> 0,
                    x_callname |-> "(" \o p.x_type \o "*)__" \o bufinfo.src \o ".ptr",
                    x_type |-> "py::buffer"])
    ELSE IF buflen # None
    THEN [p EXCEPT !.x_callname = IF Truthy(p.pointer) THEN "&" \o buflen.len ELSE buflen.len]
    ELSE IF Get(p, "force_out", FALSE)
            \/ (Truthy(p.pointer) /\ ~Truthy(p.constant) /\ p.fundamental)
    THEN [p EXCEPT !.x_callname = "&" \o p.x_callname]
    ELSE IF Truthy(p.array) /\ Truthy(Get(p, "array_size", 0))
    THEN [p EXCEPT !.x_type = "std::array<" \o p.x_type \o ", "
                              \o ToString(p.array_size) \o ">",
                   !.x_callname = p.x_callname \o ".data()"]
    ELSE p

\* lines 256-285: the statements a buffer source adds to x_lambda_pre
LambdaPre(x_lambda_pre, p, bufinfo) ==
    IF bufinfo # None
    THEN x_lambda_pre
         \o << "auto __" \o bufinfo.src \o " = " \o p.name \o ".request("
               \o (IF bufinfo.type = "IN" THEN "false" ELSE "true") \o ")" >>
         \o << bufinfo.len \o " = __" \o bufinfo.src \o ".size * __" \o bufinfo.src
               \o ".itemsize" >>
         \o (IF Truthy(bufinfo.minsz)
             THEN << "if (" \o bufinfo.len \o " < " \o ToString(bufinfo.minsz)
                     \o ") throw py::value_error(\"" \o p.name
                     \o ": minimum buffer size is " \o ToString(bufinfo.minsz)
                     \o "\")" >>
             ELSE <<>>)
    ELSE x_lambda_pre

\* lines 325-326
WithConst(p) ==
    IF Truthy(p.constant) THEN [p EXCEPT !.x_type = "const " \o p.x_type] ELSE p

\* lines 328-330
TypeFull(p) == p.x_type \o Rep("&", p.reference) \o Rep("*", p.pointer)

\* lines 328-332
WithDecl(p) ==
    Update(p, [x_type_full |-> TypeFull(p), x_decl |-> TypeFull(p) \o " " \o p.name])

\* lines 227-228, 295 and 313-332: the locals after the parameter, p being the
\* parameter with its role applied and ptype the role
ClassifyCalled(st, i, is_constructor, p, ptype, bufinfo, x_lambda_pre) ==
    [parameters |-> [st.parameters EXCEPT ![i] = WithDecl(WithConst(p))],
     buffer_params |-> DictPop(st.buffer_params, p.name),
     buflen_params |-> DictPop(st.buflen_params, p.name),
     x_keepalives |-> IF is_constructor /\ Truthy(st.parameters[i].reference)
                      THEN Append(st.x_keepalives, <<1, i + 1>>)
                      ELSE st.x_keepalives,
     x_genlambda |-> st.x_genlambda \/ bufinfo # None,
     x_lambda_pre |-> x_lambda_pre,
     x_all_params |-> IF ExposedAs(p, ptype, "all")
                      THEN Append(st.x_all_params, i) ELSE st.x_all_params,
     x_out_params |-> IF ExposedAs(p, ptype, "out")
                      THEN Append(st.x_out_params, i) ELSE st.x_out_params,
     x_temps |-> IF ptype = "ignored" \/ ExposedAs(p, ptype, "out")
                 THEN Append(st.x_temps, i) ELSE st.x_temps,
     x_in_params |-> IF ExposedAs(p, ptype, "in")
                     THEN Append(st.x_in_params, i) ELSE st.x_in_params,
     ptypes |-> Append(st.ptypes, ptype),
     types |-> st.types \cup {p.x_type}]

\* lines 250-311, p being the parameter as line 244 leaves it
ClassifyMatched(st, i, is_constructor, p, bufinfo, buflen) ==
    ClassifyCalled(st, i, is_constructor, WithCall(p, bufinfo, buflen),
                   ParamType(p, bufinfo, buflen), bufinfo,
                   LambdaPre(st.x_lambda_pre, p, bufinfo))

ClassifyPrepared(st, i, is_constructor, p) ==
    ClassifyMatched(st, i, is_constructor, p,
                    Popped(st.buffer_params, p.name), Popped(st.buflen_params, p.name))

ClassifyParam(st, i, is_constructor, param_override) ==
    ClassifyPrepared(st, i, is_constructor,
        WithPyArg(WithOverride(WithType(WithName(WithFundamental(st.parameters[i]), i)),
                               param_override)))

RECURSIVE ClassifyParams(_, _, _, _)
ClassifyParams(st, i, is_constructor, param_override) ==
    IF i > Len(st.parameters) THEN st
    ELSE ClassifyParams(ClassifyParam(st, i, is_constructor, param_override),
                        i + 1, is_constructor, param_override)

(***************************************************************************)
(* Hooks._function_hook.  The result is [raised, types, fn]: the exception *)
(* raised (NoError when it returns), the registry as the call leaves it    *)
(* (what was added before a raise stays added), and the fn dict as the     *)
(* call leaves it (fn.update runs last, so a raise leaves no x_ field      *)
(* other than the parameters' own).                                        *)
(***************************************************************************)
\* the values of the loop over data.buffers: the two dicts, or the first spec
\* whose src and len are the same
RECURSIVE BufferDicts(_, _, _)
BufferDicts(buffers, buffer_params, buflen_params) ==
    IF buffers = <<>>
    THEN [raised |-> NoError, buffer_params |-> buffer_params, buflen_params |-> buflen_params]
    ELSE LET bufinfo == Head(buffers) IN
         IF bufinfo.src = bufinfo.len
         THEN [raised |-> [type |-> "ValueError", what |-> "buffer src and len cannot be the same",
                           names |-> <<bufinfo.src, bufinfo.len>>],
               buffer_params |-> buffer_params, buflen_params |-> buflen_params]
         ELSE BufferDicts(Tail(buffers),
                          DictSet(buffer_params, bufinfo.src, bufinfo),
                          DictSet(buflen_params, bufinfo.len, bufinfo))

\* x_retname and x_type of an entry of x_rets: 0 is the dict made for the
\* primary return, i > 0 is parameter i
RetName(fn, r) == IF r = 0 THEN "__ret" ELSE fn.parameters[r].x_retname
RetType(fn, r) == IF r = 0 THEN fn.rtnType ELSE fn.parameters[r].x_type

\* the camel-casing of the exposed name: lines 181-183
CamelName(raw, fn, data) ==
    LET x_name == _set_name(raw, fn.name, data) IN
    IF data.rename = <<>> /\ ~IsUpper(Take(x_name, 2))
    THEN <<LowerChar(x_name[1])>> \o Drop(x_name, 1)
    ELSE x_name

\* x_name[0] on an empty x_name
CamelNameRaises(raw, fn, data) ==
    LET x_name == _set_name(raw, fn.name, data) IN
    data.rename = <<>> /\ ~IsUpper(Take(x_name, 2)) /\ x_name = <<>>

\* the marker of the override alone: the section of the method is not consulted
FinalNameOverrideOnly(x_name, fn, data, internal) ==
    IF data.rename # <<>> THEN data.rename
    ELSE IF data.internal THEN <<"_">> \o x_name
    ELSE IF fn.constructor THEN <<"_", "_", "i", "n", "i", "t", "_", "_">>
    ELSE x_name

\* the final renaming: lines 367-373
FinalName(x_name, fn, data, internal) ==
    IF data.rename # <<>> THEN data.rename
    ELSE IF data.internal \/ internal THEN <<"_">> \o x_name
    ELSE IF fn.constructor THEN <<"_", "_", "i", "n", "i", "t", "_", "_">>
    ELSE x_name

\* lines 345-360: the return list and the return statement
RetsAppended(fn, x_out_params) ==
    x_out_params \o (IF fn.rtnType # "void" THEN <<0>> ELSE <<>>)

Rets(fn, x_out_params) ==
    (IF fn.rtnType # "void" THEN <<0>> ELSE <<>>) \o x_out_params

WrapReturn(fn, x_rets) ==
    IF Len(x_rets) = 1 /\ RetType(fn, x_rets[1]) # "void"
    THEN "return " \o RetName(fn, x_rets[1]) \o ";"
    ELSE IF Len(x_rets) > 1
    THEN "return std::make_tuple("
         \o Join(",", [k \in DOMAIN x_rets |-> RetName(fn, x_rets[k])]) \o ");"
    ELSE ""

\* line 334: names of buffer specs no parameter consumed
UnmatchedBuffers(st) == st.buffer_params # <<>>

\* lines 187-189
WithGil(data) ==
    IF data.no_release_gil = None /\ data.cpp_code # ""
    THEN [data EXCEPT !.no_release_gil = Some(TRUE)] ELSE data

\* lines 191-221: the locals before the loop over the parameters
Locals(registry, fn, bufs) ==
    [parameters |-> fn.parameters,
     buffer_params |-> bufs.buffer_params, buflen_params |-> bufs.buflen_params,
     x_keepalives |-> <<>>, x_genlambda |-> FALSE, x_lambda_pre |-> <<>>,
     x_all_params |-> <<>>, x_out_params |-> <<>>, x_in_params |-> <<>>,
     x_temps |-> <<>>, ptypes |-> <<>>,
     types |-> registry \cup {fn.returns}]

\* lines 363-365: the temporaries' declarations, put before x_lambda_pre
TempDecls(fn, x_temps) ==
    [k \in DOMAIN x_temps |->
        fn.parameters[x_temps[k]].x_type \o " " \o fn.parameters[x_temps[k]].name \o " = 0"]

\* lines 340-421: fn.update, fn having the classified parameters
HookUpdate(raw, fn, data, internal, st, x_rets) ==
    [raised |-> NoError,
     types |-> st.types,
     fn |-> Update(fn,
         [data |-> data,
          ptypes |-> st.ptypes,
          x_name |-> FinalName(CamelName(raw, fn, data), fn, data, internal),
          x_all_params |-> st.x_all_params,
          x_in_params |-> st.x_in_params,
          x_out_params |-> st.x_out_params,
          x_rets |-> x_rets,
          x_temps |-> st.x_temps,
          x_keepalives |-> IF data.keepalive # None THEN data.keepalive.some
                           ELSE st.x_keepalives,
          x_return_value_policy |-> _rvp_map[data.return_value_policy],
          x_genlambda |-> st.x_genlambda \/ st.x_out_params # <<>>,
          x_callstart |-> IF fn.rtnType # "void" THEN "auto __ret =" ELSE "",
          x_lambda_pre |-> TempDecls(fn, st.x_temps) \o st.x_lambda_pre,
          x_lambda_post |-> <<>>,
          x_callend |-> "",
          x_wrap_return |-> WrapReturn(fn, x_rets)])]

\* lines 334-360, st being the locals after the loop
HookClassified(raw, fn, data, internal, st) ==
    IF UnmatchedBuffers(st)
    THEN [raised |-> [type |-> "ValueError", what |-> "incorrect buffer param names",
                      names |-> DictKeys(st.buffer_params)],
          types |-> st.types, fn |-> Update(fn, [ptypes |-> st.ptypes])]
    ELSE HookUpdate(raw, fn, data, internal, st, Rets(fn, st.x_out_params))

\* the loop is over: the parameters go back into fn
HookLooped(raw, fn, data, internal, st) ==
    HookClassified(raw, [fn EXCEPT !.parameters = st.parameters], data, internal, st)

\* lines 181-332, bufs being the result of the loop over data.buffers
HookBuffers(raw, registry, fn, data, internal, bufs) ==
    IF CamelNameRaises(raw, fn, data)
    THEN [raised |-> [type |-> "IndexError", what |-> "string index out of range"],
          types |-> registry, fn |-> fn]
    ELSE IF bufs.raised # NoError
    THEN [raised |-> bufs.raised, types |-> registry, fn |-> fn]
    ELSE HookLooped(raw, fn, data, internal,
                    ClassifyParams(Locals(registry, fn, bufs), 1, fn.constructor,
                                   data.param_override))

HookData(raw, registry, fn, data, internal) ==
    HookBuffers(raw, registry, fn, data, internal, BufferDicts(data.buffers, <<>>, <<>>))

_function_hook(raw, registry, fn, data0, internal) ==
    HookData(raw, registry, fn, WithGil(data0), internal)

(***************************************************************************)
(* Hooks._add_subpackage                                                   *)
(***************************************************************************)
ModuleVar(data) ==
    IF data.subpackage # <<>>
    THEN <<"p", "k", "g", "_">>
         \o [k \in DOMAIN data.subpackage |->
                IF data.subpackage[k] = "." THEN "_" ELSE data.subpackage[k]]
    ELSE <<"m">>

_add_subpackage(subs, data) ==
    IF data.subpackage # <<>>
    THEN DictSet(subs, data.subpackage, ModuleVar(data))
    ELSE subs

\* FunctionData(): every field at its default
FunctionData ==
    [rename |-> <<>>, ignore |-> FALSE, internal |-> FALSE, buffers |-> <<>>,
     param_override |-> <<>>, keepalive |-> None, no_release_gil |-> None,
     cpp_code |-> "", return_value_policy |-> "AUTOMATIC", subpackage |-> <<>>]

\* FunctionData(ignore=True)
IgnoredFunctionData == [FunctionData EXCEPT !.ignore = TRUE]

(***************************************************************************)
(* Hooks.function_hook, on the first declaration of the header: a free     *)
(* function d.fn whose override data (the Override Registry's answer) is   *)
(* d.data.                                                                 *)
(***************************************************************************)
function_hook ==
    /\ raised = NoError
    /\ header # <<>>
    /\ Head(header).kind = "function"
    /\ LET fn == Head(header).fn
           data == Head(header).data
           r == _function_hook(rawdata, types, fn, data, FALSE)
       IN  /\ header' = Tail(header)
           /\ IF Get(fn, "operator", FALSE)
              THEN /\ decl' = Update(fn, [data |-> IgnoredFunctionData])
                   /\ UNCHANGED <<types, subpackages, raised>>
              ELSE IF data.ignore
              THEN /\ decl' = Update(fn, [data |-> data])
                   /\ UNCHANGED <<types, subpackages, raised>>
              ELSE /\ decl' = Update(r.fn, [x_module_var |-> ModuleVar(data)])
                   /\ types' = r.types
                   /\ subpackages' = _add_subpackage(subpackages, data)
                   /\ raised' = r.raised
    /\ UNCHANGED <<rawdata, class_hierarchy>>

(***************************************************************************)
(* Hooks._enum_hook.  The result is [raised, en]: values before a raising  *)
(* one keep the x_name they were given.  A value_prefix of <<>> is None.   *)
(***************************************************************************)
ValuePrefix(en, enum_data) ==
    IF Get(en, "name", <<>>) = <<>> THEN <<>>
    ELSE IF enum_data.value_prefix # <<>> THEN enum_data.value_prefix
    ELSE en.name

\* lines 148-152: the name left after the prefix is cut
AfterPrefix(name, value_prefix) ==
    IF value_prefix # <<>> /\ StartsWith(name, value_prefix)
    THEN Drop(name, Len(value_prefix))
    ELSE name

\* name[0] on an empty name, line 151
ValueNameRaises(name, value_prefix) ==
    value_prefix # <<>> /\ StartsWith(name, value_prefix)
    /\ AfterPrefix(name, value_prefix) = <<>>

ValueName(name, value_prefix) ==
    IF value_prefix # <<>> /\ StartsWith(name, value_prefix)
    THEN IF AfterPrefix(name, value_prefix)[1] = "_"
         THEN Drop(AfterPrefix(name, value_prefix), 1)
         ELSE AfterPrefix(name, value_prefix)
    ELSE name

RECURSIVE EnumValues(_, _, _)
EnumValues(values, k, value_prefix) ==
    IF k > Len(values) THEN [raised |-> NoError, values |-> values]
    ELSE IF ValueNameRaises(values[k].name, value_prefix)
    THEN [raised |-> [type |-> "IndexError", what |-> "string index out of range"],
          values |-> values]
    ELSE EnumValues([values EXCEPT ![k] =
                        Update(values[k], [x_name |-> ValueName(values[k].name, value_prefix)])],
                    k + 1, value_prefix)

_enum_hook(raw, en, enum_data) ==
    LET en1 == IF Get(en, "name", <<>>) # <<>>
               THEN Update(en, [x_name |-> _set_name(raw, en.name, enum_data)])
               ELSE en
        vs == EnumValues(en.values, 1, ValuePrefix(en, enum_data))
    IN  [raised |-> vs.raised, en |-> [en1 EXCEPT !.values = vs.values]]

(***************************************************************************)
(* Hooks.header_hook, on the first declaration of the header: the enums    *)
(* and variables of one parsed header, each enum with its override data.   *)
(* The loop over the enums stops at the first enum whose hook raises.  The *)
(* entries it stores in the template data (the include list, the           *)
(* hierarchy, the subpackages) are read from the registries and are not    *)
(* kept in the model.                                                      *)
(***************************************************************************)
RECURSIVE HeaderEnums(_, _, _, _)
HeaderEnums(raw, enums, k, subs) ==
    IF k > Len(enums) THEN [raised |-> NoError, enums |-> enums, subpackages |-> subs]
    ELSE LET e == enums[k]
             r == _enum_hook(raw, e.en, e.data)
             en1 == Update(r.en, [x_namespace |-> e.en.namespace, data |-> e.data,
                                  x_module_var |-> ModuleVar(e.data)])
             done == [enums EXCEPT ![k] = [e EXCEPT !.en = en1]]
         IN  IF r.raised # NoError
             THEN [raised |-> r.raised, enums |-> done,
                   subpackages |-> _add_subpackage(subs, e.data)]
             ELSE HeaderEnums(raw, done, k + 1, _add_subpackage(subs, e.data))

header_hook ==
    /\ raised = NoError
    /\ header # <<>>
    /\ Head(header).kind = "header"
    /\ LET h == Head(header)
           r == HeaderEnums(rawdata, h.enums, 1, subpackages)
       IN  /\ header' = Tail(header)
           /\ decl' = [h EXCEPT !.enums = r.enums]
           /\ subpackages' = r.subpackages
           /\ raised' = r.raised
           /\ types' = IF r.raised = NoError
                       THEN types \cup {h.variables[k].raw_type : k \in DOMAIN h.variables}
                       ELSE types
    /\ UNCHANGED <<rawdata, class_hierarchy>>

(***************************************************************************)
(* Hooks.class_hook.                                                       *)
(***************************************************************************)
\* sub in s, on sequences of characters
Contains(s, sub) ==
    \E k \in 0..(Len(s) - Len(sub)) : SubSeq(s, k + 1, k + Len(sub)) = sub

ColonColon == <<":", ":">>

\* Hooks._qualname_bad / _qualname_trans: str.translate
_qualname_bad == {":", "<", ">", "="}
Translate(s) == [k \in DOMAIN s |-> IF s[k] \in _qualname_bad THEN "_" ELSE s[k]]

\* ClassData(): every field at its default
ClassData ==
    [rename |-> <<>>, ignore |-> FALSE, ignored_bases |-> <<>>, base_qualnames |-> <<>>,
     force_depends |-> <<>>, is_polymorphic |-> FALSE, force_no_trampoline |-> FALSE,
     subpackage |-> <<>>]

\* lines 443-448: the class's key, walking the enclosing classes
RECURSIVE ClsKey(_)
ClsKey(c) ==
    IF c.parent = None THEN c.name
    ELSE ClsKey(c.parent) \o ColonColon \o c.name

\* lines 469-478: one base with its qualified names
QualifiedBase(cls, class_data, base) ==
    LET x_qualname ==
            IF DictHas(class_data.base_qualnames, base.class)
               /\ DictGet(class_data.base_qualnames, base.class) # <<>>
            THEN DictGet(class_data.base_qualnames, base.class)
            ELSE IF ~Contains(base.class, ColonColon)
            THEN cls.namespace \o ColonColon \o base.class
            ELSE base.class
    IN  Update(base, [x_qualname |-> x_qualname, x_qualname_ |-> Translate(x_qualname)])

\* lines 488-489: ", ".join(names), the names being sequences of characters
RECURSIVE JoinNames(_)
JoinNames(names) ==
    IF names = <<>> THEN <<>>
    ELSE IF Len(names) = 1 THEN names[1]
    ELSE names[1] \o <<",", " ">> \o JoinNames(Tail(names))

\* line 480: {ib: True for ib in class_data.ignored_bases}
RECURSIVE IgnoredBasesDict(_, _)
IgnoredBasesDict(ignored_bases, d) ==
    IF ignored_bases = <<>> THEN d
    ELSE IgnoredBasesDict(Tail(ignored_bases), DictSet(d, Head(ignored_bases), TRUE))

\* every base kept, no name left over
FilterBasesUnchecked(inherits, k, ignored, kept) ==
    [x_inherits |-> [i \in DOMAIN inherits |-> i], ignored_bases |-> <<>>]

\* lines 482-486: the positions of the bases kept, and the dict the pops leave
RECURSIVE FilterBases(_, _, _, _)
FilterBases(inherits, k, ignored, kept) ==
    IF k > Len(inherits) THEN [x_inherits |-> kept, ignored_bases |-> ignored]
    ELSE IF DictHas(ignored, inherits[k].class)
    THEN FilterBases(inherits, k + 1, DictPop(ignored, inherits[k].class), kept)
    ELSE FilterBases(inherits, k + 1, ignored, Append(kept, k))

\* the bases kept, without the forced dependencies
HierarchyEntryNoDepends(inherits, x_inherits, class_data) ==
    [k \in DOMAIN x_inherits |-> inherits[x_inherits[k]].x_qualname]

\* lines 499-501: the class's entry in the hierarchy
HierarchyEntry(inherits, x_inherits, class_data) ==
    [k \in DOMAIN x_inherits |-> inherits[x_inherits[k]].x_qualname]
    \o class_data.force_depends

\* lines 519-527: operators, destructors, copy and move constructors
Excluded(fn, cls_key) ==
    \/ Get(fn, "operator", FALSE)
    \/ Get(fn, "destructor", FALSE)
    \/ /\ Get(fn, "constructor", FALSE)
       /\ fn.parameters # <<>>
       /\ fn.parameters[1].class = Some(cls_key)

\* override alone
MarksPolymorphicOverrideOnly(fn) == fn.override

\* line 515: the method marks the class polymorphic
MarksPolymorphic(fn) == fn.override \/ fn.virtual

\* lines 513-516: what one method adds to has_constructor and is_polymorphic
Scanned(acc, fn) ==
    [acc EXCEPT !.has_constructor = @ \/ fn.constructor,
                !.is_polymorphic = @ \/ MarksPolymorphic(fn)]

\* a method whose hook raises is left as it was and the loop goes on
MethodHookedSkipsFailure(cls_key, m, acc, r) ==
    IF r.raised # NoError THEN [acc |-> acc, m |-> m]
    ELSE [acc |-> [acc EXCEPT !.types = r.types], m |-> [m EXCEPT !.fn = r.fn]]

\* lines 542-547, r being the result of _function_hook on the method
MethodHooked(cls_key, m, acc, r) ==
    [acc |-> [acc EXCEPT
                 !.types = r.types,
                 !.raised = IF r.raised = NoError THEN NoError
                            ELSE [type |-> "HookError",
                                  path |-> cls_key \o ColonColon \o m.fn.name,
                                  cause |-> r.raised]],
     m |-> [m EXCEPT !.fn = r.fn]]

\* lines 512-547 for one method m = [fn, data] of the given access; acc is
\* [raised, types, has_constructor, is_polymorphic]
ClassMethod(raw, cls_key, access, m, acc) ==
    IF Excluded(m.fn, cls_key)
    THEN [acc |-> Scanned(acc, m.fn),
          m |-> [m EXCEPT !.fn = Update(m.fn, [data |-> IgnoredFunctionData])]]
    ELSE IF access = "private"
    THEN [acc |-> Scanned(acc, m.fn), m |-> m]
    ELSE IF m.data.ignore
    THEN [acc |-> Scanned(acc, m.fn), m |-> [m EXCEPT !.fn = Update(m.fn, [data |-> m.data])]]
    ELSE MethodHooked(cls_key, m, Scanned(acc, m.fn),
                      _function_hook(raw, acc.types, m.fn, m.data, access # "public"))

\* line 512: the loop over the methods of one access section, stopping at a raise
RECURSIVE SectionMethods(_, _, _, _, _, _)
RECURSIVE SectionNext(_, _, _, _, _, _)
SectionNext(raw, cls_key, access, ms, k, r) ==
    SectionMethods(raw, cls_key, access, [ms EXCEPT ![k] = r.m], k + 1, r.acc)

SectionMethods(raw, cls_key, access, ms, k, acc) ==
    IF k > Len(ms) \/ acc.raised # NoError THEN [acc |-> acc, methods |-> ms]
    ELSE SectionNext(raw, cls_key, access, ms, k,
                     ClassMethod(raw, cls_key, access, ms[k], acc))

AccessLevels == <<"public", "protected", "private">>

\* line 510: the loop over the three access sections
RECURSIVE ClassMethodsFrom(_, _, _, _, _)
RECURSIVE AccessNext(_, _, _, _, _)
AccessNext(raw, cls_key, methods, a, sec) ==
    ClassMethodsFrom(raw, cls_key, [methods EXCEPT ![AccessLevels[a]] = sec.methods],
                     a + 1, sec.acc)

ClassMethodsFrom(raw, cls_key, methods, a, acc) ==
    IF a > Len(AccessLevels) \/ acc.raised # NoError THEN [acc |-> acc, methods |-> methods]
    ELSE AccessNext(raw, cls_key, methods, a,
                    SectionMethods(raw, cls_key, AccessLevels[a], methods[AccessLevels[a]],
                                   1, acc))

ClassMethods(raw, cls_key, methods, acc0) == ClassMethodsFrom(raw, cls_key, methods, 1, acc0)

\* lines 549-551
HasTrampoline(is_polymorphic, cls, class_data) ==
    is_polymorphic /\ ~cls.final /\ ~class_data.force_no_trampoline

\* PropData(ignore=True)
IgnoredPropData == [rename |-> <<>>, ignore |-> TRUE, access |-> "AUTOMATIC"]

\* line 555: of the three access levels only "private" is a substring of "private"
PropertyHidden(access, has_trampoline) ==
    access = "private" \/ (access = "protected" /\ ~has_trampoline)

\* lines 554-581 for one property v = [prop, data]
ClassProperty(access, has_trampoline, v) ==
    IF PropertyHidden(access, has_trampoline)
    THEN [v EXCEPT !.prop = Update(v.prop, [data |-> IgnoredPropData])]
    ELSE [v EXCEPT !.prop = Update(v.prop,
            [data |-> v.data,
             x_name |-> IF v.data.rename # <<>> THEN v.data.rename
                        ELSE IF access = "public" THEN v.prop.name
                        ELSE <<"_">> \o v.prop.name,
             x_readonly |-> IF v.data.access = "AUTOMATIC"
                            THEN ~v.prop.fundamental /\ ~Truthy(v.prop.reference)
                            ELSE v.data.access = "READONLY"])]

ClassProperties(has_trampoline, properties) ==
    [access \in DOMAIN properties |->
        [k \in DOMAIN properties[access] |->
            ClassProperty(access, has_trampoline, properties[access][k])]]

\* line 565: the types of the properties that are bound
BoundPropertyTypes(has_trampoline, properties) ==
    UNION {{properties[access][k].prop.raw_type : k \in DOMAIN properties[access]} :
           access \in {a \in DOMAIN properties : ~PropertyHidden(a, has_trampoline)}}

\* lines 459-466: the loop over the class's public enums, stopping at a raise
RECURSIVE ClassEnums(_, _, _, _)
ClassEnums(raw, cls, enums, k) ==
    IF k > Len(enums) THEN [raised |-> NoError, enums |-> enums]
    ELSE LET e == enums[k]
             r == _enum_hook(raw, e.en, e.data)
             en1 == Update(r.en,
                        [x_namespace |-> e.en.namespace \o ColonColon \o cls.name
                                         \o ColonColon,
                         data |-> e.data])
             done == [enums EXCEPT ![k] = [e EXCEPT !.en = en1]]
         IN  IF r.raised # NoError THEN [raised |-> r.raised, enums |-> done]
             ELSE ClassEnums(raw, cls, done, k + 1)

\* line 495
QualName(cls) == cls.namespace \o ColonColon \o cls.name

\* what class_hook leaves behind: the exception raised (NoError when it
\* returns), the registries and the class
Left(exc, registry, hierarchy, subs, cls) ==
    [raised |-> exc, types |-> registry, class_hierarchy |-> hierarchy,
     subpackages |-> subs, cls |-> cls]

\* lines 583-588
TrampolineFields(raw, cls, class_data, has_constructor, has_trampoline) ==
    Update([x_has_trampoline |-> has_trampoline,
            x_has_constructor |-> has_constructor,
            x_varname |-> <<"c", "l", "s", "_">> \o cls.name,
            x_name |-> _set_name(raw, cls.name, class_data)],
           IF has_trampoline
           THEN [x_trampoline_name |->
                    <<"r", "p", "y", "g", "e", "n", ":", ":", "P", "y">>
                    \o cls.x_qualname_ \o <<"<">> \o cls.name \o <<">">>]
           ELSE <<>>)

\* lines 549-588, the loop over the methods being over
ClassFinished(raw, registry, hierarchy, subs, cls, class_data, has_ctor, has_trampoline) ==
    Left(NoError, registry \cup BoundPropertyTypes(has_trampoline, cls.properties),
         hierarchy, subs,
         Update([cls EXCEPT !.properties = ClassProperties(has_trampoline, cls.properties)],
                TrampolineFields(raw, cls, class_data, has_ctor, has_trampoline)))

\* ms is the result of the loop over the methods
ClassScanned(raw, hierarchy, subs, cls, class_data, ms) ==
    IF ms.acc.raised # NoError
    THEN Left(ms.acc.raised, ms.acc.types, hierarchy, subs,
              [cls EXCEPT !.methods = ms.methods])
    ELSE ClassFinished(raw, ms.acc.types, hierarchy, subs,
                       [cls EXCEPT !.methods = ms.methods], class_data,
                       ms.acc.has_constructor,
                       HasTrampoline(ms.acc.is_polymorphic, cls, class_data))

\* lines 487-547, fb being the result of filtering the bases
ClassFiltered(raw, registry, hierarchy, subs, cls, class_data, fb) ==
    IF fb.ignored_bases # <<>>
    THEN Left([type |-> "ValueError",
               what |-> "ignored_bases contains non-existant bases",
               cls_name |-> cls.name,
               invalid_bases |-> JoinNames(DictKeys(fb.ignored_bases)),
               bases |-> JoinNames([k \in DOMAIN cls.inherits |-> cls.inherits[k].class])],
              registry, hierarchy, subs, Update(cls, [x_inherits |-> fb.x_inherits]))
    ELSE ClassScanned(raw,
             DictSet(hierarchy, QualName(cls),
                     HierarchyEntry(cls.inherits, fb.x_inherits, class_data)),
             subs,
             Update(cls, [x_inherits |-> fb.x_inherits,
                          x_qualname |-> QualName(cls),
                          x_qualname_ |-> Translate(QualName(cls))]),
             class_data,
             ClassMethods(raw, ClsKey(cls), cls.methods,
                 [raised |-> NoError, types |-> registry, has_constructor |-> FALSE,
                  is_polymorphic |-> class_data.is_polymorphic \/ cls.inherits # <<>>]))

\* lines 480-486, the bases having their qualified names
ClassQualified(raw, registry, hierarchy, subs, cls, class_data) ==
    ClassFiltered(raw, registry, hierarchy, subs, cls, class_data,
                  FilterBases(cls.inherits, 1,
                              IgnoredBasesDict(class_data.ignored_bases, <<>>), <<>>))

\* lines 468-478, ens being the result of the loop over the public enums
ClassEnumsDone(raw, registry, hierarchy, subs, cls, class_data, ens) ==
    IF ens.raised # NoError
    THEN Left(ens.raised, registry, hierarchy, subs,
              [cls EXCEPT !.enums.public = ens.enums])
    ELSE ClassQualified(raw, registry, hierarchy, subs,
             [cls EXCEPT !.enums.public = ens.enums,
                         !.inherits = [k \in DOMAIN cls.inherits |->
                                          QualifiedBase(cls, class_data, cls.inherits[k])]],
             class_data)

\* The result of class_hook on cls, whose override data is class_data:
\* [raised, types, class_hierarchy, subpackages, cls]
_class_hook(raw, registry, hierarchy, subs, cls, class_data) ==
    IF cls.parent # None /\ cls.access_in_parent = "private"
    THEN Left(NoError, registry, hierarchy, subs,
              Update(cls, [data |-> [ClassData EXCEPT !.ignore = TRUE]]))
    ELSE IF class_data.ignore
    THEN Left(NoError, registry, hierarchy, subs, Update(cls, [data |-> class_data]))
    ELSE ClassEnumsDone(raw, registry, hierarchy, _add_subpackage(subs, class_data),
                        Update(cls, [data |-> class_data,
                                     x_module_var |-> ModuleVar(class_data)]),
                        class_data, ClassEnums(raw, cls, cls.enums.public, 1))

(***************************************************************************)
(* Hooks.class_hook, on the first declaration of the header: a class d.cls *)
(* with its override data d.data.                                          *)
(***************************************************************************)
class_hook ==
    /\ raised = NoError
    /\ header # <<>>
    /\ Head(header).kind = "class"
    /\ LET r == _class_hook(rawdata, types, class_hierarchy, subpackages,
                            Head(header).cls, Head(header).data)
       IN  /\ header' = Tail(header)
           /\ decl' = r.cls
           /\ types' = r.types
           /\ class_hierarchy' = r.class_hierarchy
           /\ subpackages' = r.subpackages
           /\ raised' = r.raised
    /\ UNCHANGED rawdata

(***************************************************************************)
(* The parsed declarations the model draws from.                           *)
(***************************************************************************)
\* a parameter as the header parser gives it
Param(name, raw_type, pointer, reference, constant, fundamental) ==
    [name |-> name, raw_type |-> raw_type, pointer |-> pointer, reference |-> reference,
     constant |-> constant, fundamental |-> fundamental, array |-> 0, class |-> None]

P_buf == Param("buf", "uint8_t", 1, 0, 0, FALSE)      \* uint8_t* buf
P_len == Param("len", "int", 1, 0, 0, TRUE)           \* int* len
P_lenv == Param("len", "int", 0, 0, 0, TRUE)          \* int len
P_data == Param("data", "void", 1, 0, 0, TRUE)        \* void* data
P_anon == Param("", "int", 1, 0, 1, TRUE)             \* const int*
P_ref == Param("r", "Foo", 0, 1, 1, FALSE)            \* const Foo& r
P_mode == Update(Param("m", "Mode", 0, 0, 0, FALSE), [enum |-> "ns::Mode"])    \* Mode m
P_arr == Update([Param("arr", "int", 0, 0, 0, TRUE) EXCEPT !.array = 1],
                [array_size |-> 2])                   \* int arr[2]

ParamPool == {P_buf, P_len, P_lenv, P_data, P_anon, P_ref, P_mode, P_arr}

\* parameter lists: up to MaxParams parameters, no name declared twice
ParamLists ==
    {ps \in UNION {[1..n -> ParamPool] : n \in 0..MaxParams} :
        \A i, j \in DOMAIN ps : (i # j /\ ps[i].name # "") => ps[i].name # ps[j].name}

BufferInfo(src, len, type, minsz) == [src |-> src, len |-> len, type |-> type, minsz |-> minsz]

BufferLists ==
    {<<>>,
     <<BufferInfo("buf", "len", "IN", 0)>>,
     <<BufferInfo("buf", "len", "OUT", 4)>>,
     <<BufferInfo("buf", "n", "IN", 0)>>,
     <<BufferInfo("b", "len", "IN", 0)>>,
     <<BufferInfo("buf", "buf", "IN", 0)>>,
     <<BufferInfo("buf", "len", "IN", 0), BufferInfo("data", "n", "OUT", 0)>>}

\* per-parameter overrides: the fields the configuration sets
ParamOverrides ==
    {<<>>} \cup
    {n :> po : n \in {"buf", "len", "data", "r"},
               po \in {[ignore |-> TRUE], [force_out |-> TRUE]}}

Function(name, rtnType, constructor, parameters) ==
    [kind |-> "function", name |-> name, rtnType |-> rtnType, returns |-> rtnType,
     constructor |-> constructor, parameters |-> parameters]

FunctionHeads ==
    {<<<<"G", "e", "t", "V", "a", "l", "u", "e">>, "int", FALSE>>,
     <<<<"S", "e", "t">>, "void", FALSE>>,
     <<<<"F", "o", "o">>, "void", TRUE>>}

\* the overrides that name a parameter of ps
OverridesFor(ps) ==
    {o \in ParamOverrides : \A n \in DOMAIN o : \E i \in DOMAIN ps : ps[i].name = n}

\* a function with the given parameters, buffer specs and parameter overrides
ParamDecl(h, ps, b, po) ==
    [kind |-> "function",
     fn |-> Function(h[1], h[2], h[3], ps),
     data |-> [FunctionData EXCEPT !.buffers = b, !.param_override = po]]

\* functions whose other override fields are set
MiscDecls ==
    {[kind |-> "function", fn |-> Function(<<"G", "e", "t", "V", "a", "l", "u", "e">>, "int", FALSE, <<P_len>>),
      data |-> d] :
        d \in {[FunctionData EXCEPT !.ignore = TRUE],
               [FunctionData EXCEPT !.internal = TRUE],
               [FunctionData EXCEPT !.rename = <<"g">>],
               [FunctionData EXCEPT !.keepalive = Some(<<>>)],
               [FunctionData EXCEPT !.cpp_code = "[]() {}"],
               [FunctionData EXCEPT !.return_value_policy = "COPY"],
               [FunctionData EXCEPT !.subpackage = <<"a", ".", "b">>]}}
    \cup
    {[kind |-> "function",
      fn |-> Update(Function(<<"G", "e", "t", "V", "a", "l", "u", "e">>, "int", FALSE, <<P_len>>), [operator |-> TRUE]),
      data |-> FunctionData]}

(***************************************************************************)
(* Hooks.__init__: empty registries.  The header to process is one of the  *)
(* parsed functions.                                                       *)
(***************************************************************************)
InitHooks ==
    /\ types = {}
    /\ class_hierarchy = <<>>
    /\ subpackages = <<>>
    /\ decl = None
    /\ raised = NoError

InitFn ==
    /\ InitHooks
    /\ rawdata = [strip_prefixes |-> <<>>]
    /\ \/ \E h \in FunctionHeads, ps \in ParamLists, b \in BufferLists :
             \E po \in OverridesFor(ps) : header = <<ParamDecl(h, ps, b, po)>>
       \/ \E d \in MiscDecls : header = <<d>>

NextFn == function_hook

SpecFn == InitFn /\ [][NextFn]_vars

(***************************************************************************)
(* Names: every non-empty name of up to MaxNameLen characters over a small *)
(* alphabet with upper-case letters, a lower-case letter and "_".          *)
(***************************************************************************)
NamesOver(alphabet) == UNION {[1..n -> alphabet] : n \in 1..MaxNameLen}

FunctionNames == NamesOver({"H", "A", "b", "_"})

PrefixLists ==
    {<<>>,
     << <<"H">> >>,
     << <<"H">>, <<"H", "A">> >>,
     << <<"H", "A">>, <<"H">> >>,
     << <<"_">>, <<"b">> >>}

\* a function without parameters with the given name and naming overrides
NameDecl(n, c, r, i) ==
    [kind |-> "function",
     fn |-> Function(n, "void", c, <<>>),
     data |-> [FunctionData EXCEPT !.rename = r, !.internal = i]]

InitName ==
    /\ InitHooks
    /\ rawdata \in {[strip_prefixes |-> sp] : sp \in PrefixLists}
    /\ \E n \in FunctionNames, c \in BOOLEAN, r \in {<<>>, <<"H", "b">>}, i \in BOOLEAN :
          header = <<NameDecl(n, c, r, i)>>

NextName == function_hook

SpecName == InitName /\ [][NextName]_vars

(***************************************************************************)
(* Enums: one enum named C or anonymous, with values over a small          *)
(* alphabet, and enum Color { kColorRed, kColorBlue }.                     *)
(***************************************************************************)
MaxValues == 1

\* EnumData(): the fields _enum_hook and header_hook read
EnumData == [rename |-> <<>>, value_prefix |-> <<>>, subpackage |-> <<>>]

Enum(name, values) ==
    Update([namespace |-> <<"n">>, values |-> [k \in DOMAIN values |-> [name |-> values[k]]]],
           IF name = <<>> THEN <<>> ELSE [name |-> name])

ValueNames == NamesOver({"C", "_"})

Color == <<"C", "o", "l", "o", "r">>
kColor == <<"k">> \o Color
kColorRed == kColor \o <<"R", "e", "d">>
kColorBlue == kColor \o <<"B", "l", "u", "e">>

EnumDecl(n, vs, vp, r) ==
    [en |-> Enum(n, vs), data |-> [EnumData EXCEPT !.value_prefix = vp, !.rename = r]]

Variables == {<<>>, <<[name |-> "v", raw_type |-> "Foo"]>>}

InitEnum ==
    /\ InitHooks
    /\ rawdata = [strip_prefixes |-> <<>>]
    /\ \/ \E n \in {<<>>, <<"C">>}, vp \in {<<>>, <<"_">>, <<"C", "_">>},
             k \in 0..MaxValues :
             \E vs \in [1..k -> ValueNames] :
                header = <<[kind |-> "header", enums |-> <<EnumDecl(n, vs, vp, <<>>)>>,
                            variables |-> <<>>]>>
       \/ \E vp \in {<<>>, kColor}, r \in {<<>>, <<"C">>}, vars_ \in Variables :
             header = <<[kind |-> "header",
                         enums |-> <<EnumDecl(Color, <<kColorRed, kColorBlue>>, vp, r)>>,
                         variables |-> vars_]>>

NextEnum == header_hook

SpecEnum == InitEnum /\ [][NextEnum]_vars

(***************************************************************************)
(* Name resolution: a header of one enum without values, whose x_name is   *)
(* what _set_name returns for the enum's name, under every list of         *)
(* prefixes, one of them with an empty prefix.                             *)
(***************************************************************************)
SetNamePrefixLists == PrefixLists \cup {<< <<>>, <<"H">> >>}

InitSetName ==
    /\ InitHooks
    /\ rawdata \in {[strip_prefixes |-> sp] : sp \in SetNamePrefixLists}
    /\ \E n \in FunctionNames, r \in {<<>>, <<"H", "b">>} :
          header = <<[kind |-> "header", enums |-> <<EnumDecl(n, <<>>, <<>>, r)>>,
                      variables |-> <<>>]>>

NextSetName == header_hook

SpecSetName == InitSetName /\ [][NextSetName]_vars

(***************************************************************************)
(* Classes.  Class A of namespace n, and class B nested in A.              *)
(***************************************************************************)
MaxMethods == 2

NoMembers == [public |-> <<>>, protected |-> <<>>, private |-> <<>>]

Class(name, namespace, parent, access_in_parent) ==
    [kind |-> "class", name |-> name, namespace |-> namespace, parent |-> parent,
     access_in_parent |-> access_in_parent, inherits |-> <<>>, final |-> FALSE,
     enums |-> [public |-> <<>>], methods |-> NoMembers, properties |-> NoMembers]

ClassA == Class(<<"A">>, <<"n">>, None, "")
ClassB(access_in_parent) ==
    Class(<<"B">>, <<"n", ":", ":", "A">>, [name |-> <<"A">>, parent |-> None],
          access_in_parent)

\* a method as the header parser gives it
Method(name, rtnType, parameters, marks) ==
    Update(Update(Function(name, rtnType, FALSE, parameters),
                  [virtual |-> FALSE, override |-> FALSE]),
           marks)

\* the methods of the class whose key is cls_key, each with its override data
MethodPool(cls_key) ==
    {[fn |-> Method(<<"R", "u", "n">>, "void", <<P_len>>, [virtual |-> TRUE]),
      data |-> FunctionData],
     [fn |-> Method(<<"S", "e", "t">>, "void", <<>>, [override |-> TRUE]),
      data |-> [FunctionData EXCEPT !.ignore = TRUE]],
     [fn |-> Method(<<"~", "A">>, "void", <<>>, [virtual |-> TRUE, destructor |-> TRUE]),
      data |-> FunctionData],
     [fn |-> Method(<<"=", "=">>, "bool", <<P_ref>>, [operator |-> TRUE]),
      data |-> FunctionData],
     [fn |-> Method(<<"A">>, "void", <<>>, [constructor |-> TRUE]),
      data |-> FunctionData],
     [fn |-> Method(<<"A">>, "void", <<[P_ref EXCEPT !.class = Some(cls_key)]>>,
                    [constructor |-> TRUE]),
      data |-> FunctionData],
     [fn |-> Method(<<"P", "u", "t">>, "void", <<P_lenv>>, <<>>),
      data |-> [FunctionData EXCEPT !.buffers = <<BufferInfo("buf", "len", "IN", 0)>>]]}

\* the method lists of a class: up to MaxMethods methods over the three sections
MethodLists(cls_key) ==
    LET pool == MethodPool(cls_key) IN
    UNION {{[public |-> pub, protected |-> pro, private |-> pri] :
               pub \in [1..n[1] -> pool],
               pro \in [1..n[2] -> pool],
               pri \in [1..n[3] -> pool]} :
           n \in {m \in (0..MaxMethods) \X (0..MaxMethods) \X (0..MaxMethods) :
                     m[1] + m[2] + m[3] <= MaxMethods}}

\* PropData(): every field at its default
PropData == [rename |-> <<>>, ignore |-> FALSE, access |-> "AUTOMATIC"]

Property(name, raw_type, fundamental, reference) ==
    [name |-> name, raw_type |-> raw_type, fundamental |-> fundamental,
     reference |-> reference]

PropertyLists ==
    {NoMembers,
     [public |-> <<[prop |-> Property(<<"x">>, "int", TRUE, 0), data |-> PropData]>>,
      protected |-> <<[prop |-> Property(<<"y">>, "Foo", FALSE, 0),
                       data |-> [PropData EXCEPT !.access = "READWRITE"]]>>,
      private |-> <<[prop |-> Property(<<"z">>, "Bar", FALSE, 1), data |-> PropData]>>]}

BaseX == [class |-> <<"X">>]
BaseY == [class |-> <<"m", ":", ":", "Y">>]

\* a class whose methods, properties and trampoline flags are the given ones
MemberDecl(c, inh, fin, ms, props, poly, notramp) ==
    [kind |-> "class",
     cls |-> [c EXCEPT !.inherits = inh, !.final = fin, !.methods = ms,
                       !.properties = props],
     data |-> [ClassData EXCEPT !.is_polymorphic = poly, !.force_no_trampoline = notramp]]

\* classes class_hook leaves alone: nested in a private section, or ignored by
\* the override; each has a base and a virtual method
SkippedDecls ==
    LET run(c) == CHOOSE m \in MethodPool(ClsKey(c)) : m.fn.name = <<"R", "u", "n">> IN
    {MemberDecl(ClassB("private"), <<BaseX>>, FALSE,
                [NoMembers EXCEPT !.public = <<run(ClassB("private"))>>],
                NoMembers, TRUE, FALSE),
     [MemberDecl(ClassA, <<BaseX>>, FALSE, [NoMembers EXCEPT !.public = <<run(ClassA)>>],
                 NoMembers, TRUE, FALSE) EXCEPT !.data.ignore = TRUE]}

InitCls ==
    /\ InitHooks
    /\ rawdata = [strip_prefixes |-> <<>>]
    /\ \/ \E ip \in {<< <<>>, FALSE >>, << <<BaseX>>, FALSE >>, << <<>>, TRUE >>},
             fin \in BOOLEAN, notramp \in BOOLEAN,
             ms \in MethodLists(ClsKey(ClassA)), props \in PropertyLists :
             header = <<MemberDecl(ClassA, ip[1], fin, ms, props, ip[2], notramp)>>
       \/ \E d \in SkippedDecls : header = <<d>>

NextCls == class_hook

SpecCls == InitCls /\ [][NextCls]_vars

(***************************************************************************)
(* The method loop of class_hook over methods whose overrides rename them  *)
(* or mark them internal: class A with up to MaxMethods methods, in any    *)
(* section, of the pool of SpecCls and of the methods below.               *)
(***************************************************************************)
\* Get with a rename override, Get with an internal override, and an operator
\* and a copy constructor whose overrides rename them
OverriddenMethods(cls_key) ==
    {[fn |-> Method(<<"G", "e", "t">>, "int", <<>>, <<>>),
      data |-> [FunctionData EXCEPT !.rename = <<"g">>]],
     [fn |-> Method(<<"G", "e", "t">>, "int", <<>>, <<>>),
      data |-> [FunctionData EXCEPT !.internal = TRUE]],
     [fn |-> Method(<<"=", "=">>, "bool", <<P_ref>>, [operator |-> TRUE]),
      data |-> [FunctionData EXCEPT !.rename = <<"e", "q">>]],
     [fn |-> Method(<<"A">>, "void", <<[P_ref EXCEPT !.class = Some(cls_key)]>>,
                    [constructor |-> TRUE]),
      data |-> [FunctionData EXCEPT !.internal = TRUE]]}

\* one section of methods: n of them, each of either pool
RECURSIVE SectionLists(_, _)
SectionLists(cls_key, n) ==
    IF n = 0 THEN {<<>>}
    ELSE {<<m>> \o rest : m \in MethodPool(cls_key) \cup OverriddenMethods(cls_key),
                          rest \in SectionLists(cls_key, n - 1)}

InitMeth ==
    /\ InitHooks
    /\ rawdata = [strip_prefixes |-> <<>>]
    /\ \E a \in 0..MaxMethods, b \in 0..MaxMethods, c \in 0..MaxMethods :
          /\ a + b + c <= MaxMethods
          /\ \E pub \in SectionLists(ClsKey(ClassA), a),
                pro \in SectionLists(ClsKey(ClassA), b),
                pri \in SectionLists(ClsKey(ClassA), c) :
                header = <<MemberDecl(ClassA, <<>>, FALSE,
                                      [public |-> pub, protected |-> pro, private |-> pri],
                                      NoMembers, FALSE, FALSE)>>

NextMeth == class_hook

SpecMeth == InitMeth /\ [][NextMeth]_vars

(***************************************************************************)
(* The property loop of class_hook: class A with up to MaxProps            *)
(* properties over the three sections, each with its override data, and    *)
(* without methods or with a private virtual destructor, final or not,     *)
(* with or without force_no_trampoline.                                    *)
(***************************************************************************)
MaxProps == 2

\* the properties x (int), y (Foo) and z (Bar&), each with a default override,
\* an override that ignores it, or one that renames it and makes it writable
PropertyPool ==
    {[prop |-> p, data |-> d] :
        p \in {Property(<<"x">>, "int", TRUE, 0), Property(<<"y">>, "Foo", FALSE, 0),
               Property(<<"z">>, "Bar", FALSE, 1)},
        d \in {PropData, [PropData EXCEPT !.ignore = TRUE],
               [PropData EXCEPT !.rename = <<"r">>, !.access = "READWRITE"]}}

\* one section of n properties
RECURSIVE PropertySection(_)
PropertySection(n) ==
    IF n = 0 THEN {<<>>}
    ELSE {<<v>> \o rest : v \in PropertyPool, rest \in PropertySection(n - 1)}

\* the methods of the class: none, or a private virtual destructor
ScannedMethods ==
    {NoMembers,
     [NoMembers EXCEPT !.private =
         <<[fn |-> Method(<<"~", "A">>, "void", <<>>, [virtual |-> TRUE, destructor |-> TRUE]),
            data |-> FunctionData]>>]}

InitProp ==
    /\ InitHooks
    /\ rawdata = [strip_prefixes |-> <<>>]
    /\ \E a \in 0..MaxProps, b \in 0..MaxProps, c \in 0..MaxProps :
          /\ a + b + c <= MaxProps
          /\ \E pub \in PropertySection(a), pro \in PropertySection(b),
                pri \in PropertySection(c), ms \in ScannedMethods,
                fin \in BOOLEAN, notramp \in BOOLEAN :
                header = <<MemberDecl(ClassA, <<>>, fin, ms,
                                      [public |-> pub, protected |-> pro, private |-> pri],
                                      FALSE, notramp)>>

NextProp == class_hook

SpecProp == InitProp /\ [][NextProp]_vars

(***************************************************************************)
(* Class hierarchies: a header of up to MaxClasses classes, which          *)
(* class_hook is given one after the other.  Within a run no two classes   *)
(* have the same qualified name, and a class names a direct base once.     *)
(***************************************************************************)
MaxClasses == 2

BaseLists == {<<>>, <<BaseX>>, <<BaseY>>, <<BaseX, BaseY>>, <<BaseY, BaseX>>}

HierarchyData ==
    {ClassData,
     [ClassData EXCEPT !.ignore = TRUE],
     [ClassData EXCEPT !.ignore = TRUE, !.ignored_bases = << <<"W">> >>],
     [ClassData EXCEPT !.ignored_bases = << <<"X">> >>],
     [ClassData EXCEPT !.ignored_bases = << <<"W">> >>],
     [ClassData EXCEPT !.ignored_bases = << <<"W">>, <<"X">>, <<"V">>, <<"W">> >>],
     [ClassData EXCEPT !.ignored_bases = << <<"X">>, <<"m", ":", ":", "Y">>, <<"X">> >>],
     [ClassData EXCEPT !.base_qualnames = << << <<"X">>, <<"q", ":", ":", "X">> >> >>,
                       !.force_depends = << <<"n", ":", ":", "D">> >>],
     [ClassData EXCEPT !.ignored_bases = << <<"m", ":", ":", "Y">> >>,
                       !.force_depends = << <<"n", ":", ":", "D">> >>]}

\* a class with a public enum whose value is named as the enum is
EnumClass ==
    [ClassA EXCEPT !.enums = [public |-> <<[en |-> Enum(<<"C">>, << <<"C">> >>),
                                            data |-> EnumData]>>]]

\* a class nested in a protected section, with a base and a method whose
\* buffer spec names no parameter
PutClass ==
    [ClassB("protected") EXCEPT
        !.inherits = <<BaseX>>,
        !.methods = [NoMembers EXCEPT !.public =
            <<CHOOSE m \in MethodPool(<<"A", ":", ":", "B">>) :
                 m.fn.name = <<"P", "u", "t">> >>]]

ClassC == [Class(<<"C">>, <<"n">>, None, "") EXCEPT !.inherits = <<[class |-> <<"A">>]>>]

HierarchyDecls ==
    {[kind |-> "class", cls |-> [c EXCEPT !.inherits = inh], data |-> d] :
        c \in {ClassA, ClassB("public")}, inh \in BaseLists, d \in HierarchyData}
    \cup
    {[kind |-> "class", cls |-> [ClassB("private") EXCEPT !.inherits = inh], data |-> d] :
        inh \in {<<>>, <<BaseX>>},
        d \in {ClassData, [ClassData EXCEPT !.ignored_bases = << <<"W">> >>]}}
    \cup
    {[kind |-> "class", cls |-> c, data |-> d] :
        c \in {EnumClass, PutClass, ClassC},
        d \in {ClassData, [ClassData EXCEPT !.ignored_bases = << <<"W">> >>]}}

\* the headers of up to n classes, none with a qualified name in used
RECURSIVE Headers(_, _)
Headers(used, n) ==
    IF n = 0 THEN {<<>>}
    ELSE {<<>>} \cup
         UNION {{<<d>> \o h : h \in Headers(used \cup {QualName(d.cls)}, n - 1)} :
                d \in {e \in HierarchyDecls : QualName(e.cls) \notin used}}

InitHier ==
    /\ InitHooks
    /\ rawdata = [strip_prefixes |-> <<>>]
    /\ header \in Headers({}, MaxClasses) \ {<<>>}

NextHier == class_hook

SpecHier == InitHier /\ [][NextHier]_vars

(***************************************************************************)
(* Properties of _function_hook, checked under SpecFn.                     *)
(***************************************************************************)
\* the last declaration has been processed
Processed == decl # None /\ header = <<>>
\* ... and _function_hook ran to its fn.update
Hooked == Processed /\ "x_rets" \in DOMAIN decl
\* ... and _function_hook ran its loop over the parameters
Classified == Processed /\ "ptypes" \in DOMAIN decl

Ignored(p) == Get(p, "ignore", FALSE)

\* the positions of the parameters classified "out" and not ignored, in declaration order
OutPositions(d) ==
    SelectSeq([i \in 1..Len(d.parameters) |-> i],
              LAMBDA i : d.ptypes[i] = "out" /\ ~Ignored(d.parameters[i]))

RetArityAndOrder(d) ==
    /\ d.x_out_params = OutPositions(d)
    /\ Len(d.x_rets) = (IF d.rtnType # "void" THEN 1 ELSE 0) + Len(OutPositions(d))
    /\ d.rtnType # "void" => d.x_rets[1] = 0
    /\ SelectSeq(d.x_rets, LAMBDA r : r # 0) = OutPositions(d)

TupleReturn(d) ==
    "return std::make_tuple("
    \o Join(",", [k \in DOMAIN d.x_rets |-> RetName(d, d.x_rets[k])]) \o ");"

\* C2 as stated: the return aggregate is the primary return (when not void)
\* followed by the out-parameters in declaration order; no entry gives no
\* return statement, one entry returns that value, more return the tuple.
C2_AsStated ==
    Hooked =>
        /\ RetArityAndOrder(decl)
        /\ Len(decl.x_rets) = 0 => decl.x_wrap_return = ""
        /\ Len(decl.x_rets) = 1 =>
               decl.x_wrap_return = "return " \o RetName(decl, decl.x_rets[1]) \o ";"
        /\ Len(decl.x_rets) > 1 => decl.x_wrap_return = TupleReturn(decl)

\* C2 amended: as stated, except that a single entry whose type is "void" (an
\* out-parameter of type void) gives no return statement.
C2_ReturnAggregate ==
    Hooked =>
        /\ RetArityAndOrder(decl)
        /\ Len(decl.x_rets) = 0 => decl.x_wrap_return = ""
        /\ Len(decl.x_rets) = 1 =>
               decl.x_wrap_return =
                   IF RetType(decl, decl.x_rets[1]) # "void"
                   THEN "return " \o RetName(decl, decl.x_rets[1]) \o ";"
                   ELSE ""
        /\ Len(decl.x_rets) > 1 => decl.x_wrap_return = TupleReturn(decl)

\* a function with a primary return and two out-parameters has been wrapped
C2_Witness ==
    /\ Hooked
    /\ decl.rtnType # "void"
    /\ Len(decl.x_out_params) = 2
    /\ Len(decl.x_rets) = 3
    /\ decl.x_wrap_return = TupleReturn(decl)

\* every buffer spec's source and length name is the name of a parameter
BufferNamesMatched(d, buffers) ==
    \A k \in DOMAIN buffers :
        /\ \E i \in DOMAIN d.parameters : d.parameters[i].name = buffers[k].src
        /\ \E i \in DOMAIN d.parameters : d.parameters[i].name = buffers[k].len

\* C3 as stated: a function with a buffer spec whose source name or length
\* name no parameter matched is not hooked (the hook raises instead), so a
\* hooked function has every such name matched.
C3_UnmatchedBufferNameFails ==
    Hooked => BufferNamesMatched(decl, decl.data.buffers)

\* the scenario of C4: int GetValue(uint8_t* buf, int* len) with the buffer
\* spec {src: buf, len: len, type: IN}
IsGetValue(d) ==
    /\ d.name = <<"G", "e", "t", "V", "a", "l", "u", "e">>
    /\ d.rtnType = "int"
    /\ Len(d.parameters) = 2
    /\ d.parameters[1].name = "buf" /\ d.parameters[1].raw_type = "uint8_t"
    /\ d.parameters[2].name = "len" /\ d.parameters[2].raw_type = "int"
    /\ d.parameters[2].pointer = 1
    /\ d.data.buffers = <<BufferInfo("buf", "len", "IN", 0)>>
    /\ d.data.param_override = <<>>

BufferMode(d, i) ==
    /\ d.parameters[i].x_type = "const py::buffer"
    /\ d.parameters[i].x_callname = "(uint8_t*)__buf.ptr"
    /\ d.ptypes[i] = "in"
    /\ \E k \in DOMAIN d.x_lambda_pre : d.x_lambda_pre[k] = "auto __buf = buf.request(false)"

LengthComputed(d) ==
    \E k \in DOMAIN d.x_lambda_pre : d.x_lambda_pre[k] = "len = __buf.size * __buf.itemsize"

\* C4 as stated: in the scenario buf is buffer-mode, len is an ignored temporary
\* holding the computed byte length and no out-parameter, and the wrapped
\* return is the primary return alone.
C4_AsStated ==
    (Hooked /\ IsGetValue(decl)) =>
        /\ BufferMode(decl, 1)
        /\ LengthComputed(decl)
        /\ decl.ptypes[2] = "ignored"
        /\ decl.x_out_params = <<>>
        /\ decl.x_rets = <<0>>
        /\ decl.x_wrap_return = "return __ret;"

\* C4 amended: in the scenario buf is buffer-mode and len, being a pointer, is an
\* out-parameter whose temporary holds the computed byte length; the wrapped
\* return is the tuple (primary return, len).
C4_GetValue ==
    (Hooked /\ IsGetValue(decl)) =>
        /\ BufferMode(decl, 1)
        /\ LengthComputed(decl)
        /\ decl.ptypes[2] = "out"
        /\ decl.parameters[2].x_callname = "&len"
        /\ decl.x_out_params = <<2>>
        /\ decl.x_temps = <<2>>
        /\ decl.x_rets = <<0, 2>>
        /\ decl.x_wrap_return = "return std::make_tuple(__ret,len);"

C4_Witness == Hooked /\ IsGetValue(decl) /\ raised = NoError

\* the type _add_type_caster was given for parameter p: its x_type before
\* the "const " prefix
TypeRegistered(p) ==
    \E t \in types : p.x_type = (IF Truthy(p.constant) THEN "const " \o t ELSE t)

InSeq(x, s) == \E k \in DOMAIN s : s[k] = x

\* C8: a parameter with an ignore override is on none of x_all_params,
\* x_in_params, x_out_params and x_rets, whatever its role, and its type is in
\* the type-caster registry.
C8_IgnoredParam ==
    Classified =>
        \A i \in DOMAIN decl.parameters :
            Ignored(decl.parameters[i]) =>
                /\ TypeRegistered(decl.parameters[i])
                /\ Hooked =>
                      /\ ~InSeq(i, decl.x_all_params)
                      /\ ~InSeq(i, decl.x_in_params)
                      /\ ~InSeq(i, decl.x_out_params)
                      /\ ~InSeq(i, decl.x_rets)

\* an ignored buffer source and an ignored out-parameter have been classified
C8_Witness ==
    /\ Hooked
    /\ Len(decl.parameters) = 2
    /\ \E i, j \in DOMAIN decl.parameters :
          /\ Ignored(decl.parameters[i]) /\ decl.ptypes[i] = "out"
          /\ ~Ignored(decl.parameters[j]) /\ decl.ptypes[j] = "out"
          /\ decl.x_out_params = <<j>>

(***************************************************************************)
(* Properties of the exposed function name, checked under SpecName.        *)
(***************************************************************************)
\* both of the first two characters are upper-case letters
TwoUpper(name) ==
    Len(name) >= 2 /\ name[1] \in Range(UpperChars) /\ name[2] \in Range(UpperChars)

\* the name with its first character lower-cased
LowerFirst(name) == <<LowerChar(name[1])>> \o Drop(name, 1)

\* C9 as stated: for a function without a rename the hook succeeds, whatever
\* the name; the name after prefix stripping is exposed with its leading
\* character untouched when a prefix was stripped or its first two characters
\* are upper case, and is exposed with the first character lower-cased only
\* when no prefix was stripped and its first two characters are not both
\* upper case.  (The exposed name is compared on public non-constructor
\* functions, whose name gets no marker.)
C9_AsStated ==
    (Processed /\ decl.kind = "function") =>
        /\ raised = NoError
        /\ (Hooked /\ decl.data.rename = <<>> /\ ~decl.data.internal /\ ~decl.constructor) =>
              LET stripped == StripFirst(decl.name, rawdata.strip_prefixes) IN
              /\ (stripped # decl.name \/ TwoUpper(stripped)) => decl.x_name = stripped
              /\ decl.x_name # stripped =>
                    /\ stripped = decl.name /\ ~TwoUpper(stripped)
                    /\ decl.x_name = LowerFirst(stripped)

(***************************************************************************)
(* Properties of the enum normalizer, checked under SpecEnum.              *)
(***************************************************************************)
\* the short name the claim describes: the prefix removed when the name
\* starts with it, then one leading underscore removed
ShortName(name, prefix) ==
    IF StartsWith(name, prefix)
    THEN LET rest == Drop(name, Len(prefix)) IN
         IF rest # <<>> /\ rest[1] = "_" THEN Drop(rest, 1) ELSE rest
    ELSE name

\* C10 as stated: every value of every named enum gets the short name, without
\* error, whatever the value's name, and keeps its native name.
C10_AsStated ==
    (Processed /\ decl.kind = "header") =>
        /\ raised = NoError
        /\ \A k \in DOMAIN decl.enums :
              LET en == decl.enums[k].en
                  prefix == IF decl.enums[k].data.value_prefix # <<>>
                            THEN decl.enums[k].data.value_prefix ELSE en.name
              IN  "name" \in DOMAIN en =>
                      \A j \in DOMAIN en.values :
                          /\ "x_name" \in DOMAIN en.values[j]
                          /\ en.values[j].x_name = ShortName(en.values[j].name, prefix)

(***************************************************************************)
(* Properties of class_hook.  ClassStep is a step of class_hook on the     *)
(* class d = Head(header).                                                 *)
(***************************************************************************)
ClassStep == header # <<>> /\ Head(header).kind = "class" /\ header' = Tail(header)

\* class_hook returns at once: nested in a private section, or ignored
Skipped(d) ==
    (d.cls.parent # None /\ d.cls.access_in_parent = "private") \/ d.data.ignore

\* the class's public enums are hooked without an error
EnumsHooked(d) == ClassEnums(rawdata, d.cls, d.cls.enums.public, 1).raised = NoError

\* the class is polymorphic: a base, a method of any section marked virtual or
\* override, or the override's is_polymorphic
Polymorphic(cls, class_data) ==
    \/ cls.inherits # <<>>
    \/ class_data.is_polymorphic
    \/ \E access \in DOMAIN cls.methods : \E k \in DOMAIN cls.methods[access] :
          cls.methods[access][k].fn.virtual \/ cls.methods[access][k].fn.override

\* C1: a class that is neither nested in a private section nor ignored and
\* whose processing completes has x_has_trampoline = polymorphic and not final
\* and not force_no_trampoline, the methods of every section counting towards
\* polymorphic, also those excluded from binding.
C1_Trampoline ==
    (Processed /\ decl.kind = "class" /\ ~decl.data.ignore /\ raised = NoError) =>
        /\ "x_has_trampoline" \in DOMAIN decl
        /\ decl.x_has_trampoline =
              (Polymorphic(decl, decl.data) /\ ~decl.final /\ ~decl.data.force_no_trampoline)

\* a class without bases whose only method is a private virtual destructor
\* has a trampoline
C1_Witness ==
    /\ Processed /\ decl.kind = "class" /\ raised = NoError
    /\ decl.inherits = <<>> /\ ~decl.data.is_polymorphic
    /\ decl.methods.public = <<>> /\ decl.methods.protected = <<>>
    /\ Len(decl.methods.private) = 1
    /\ Get(decl.methods.private[1].fn, "destructor", FALSE)
    /\ decl.methods.private[1].fn.data.ignore
    /\ decl.x_has_trampoline

(***************************************************************************)
(* ignored_bases and the hierarchy, checked under SpecHier.                *)
(***************************************************************************)
DeclaredBases(cls) == [k \in DOMAIN cls.inherits |-> cls.inherits[k].class]

\* the elements of s, each once, in the order of their first occurrence
FirstOccurrences(s) ==
    LET idx == SelectSeq([k \in 1..Len(s) |-> k],
                         LAMBDA k : \A j \in 1..(k - 1) : s[j] # s[k])
    IN  [i \in DOMAIN idx |-> s[idx[i]]]

\* the names of ignored_bases that are no declared base
InvalidBases(d) ==
    SelectSeq(FirstOccurrences(d.data.ignored_bases),
              LAMBDA n : ~InSeq(n, DeclaredBases(d.cls)))

\* the positions of the declared bases that ignored_bases does not name
KeptBases(d) ==
    SelectSeq([k \in 1..Len(d.cls.inherits) |-> k],
              LAMBDA k : ~InSeq(d.cls.inherits[k].class, d.data.ignored_bases))

\* the error that names the class, the invalid names and the declared bases
ConfigError(d) ==
    [type |-> "ValueError",
     what |-> "ignored_bases contains non-existant bases",
     cls_name |-> d.cls.name,
     invalid_bases |-> JoinNames(InvalidBases(d)),
     bases |-> JoinNames(DeclaredBases(d.cls))]

ExpectedEntry(d) ==
    [k \in DOMAIN KeptBases(d) |->
        QualifiedBase(d.cls, d.data, d.cls.inherits[KeptBases(d)[k]]).x_qualname]
    \o d.data.force_depends

KeySet(dict) == {dict[i][1] : i \in DOMAIN dict}

\* C6: a class_hook step whose hierarchy step completes (class not skipped,
\* enums hooked, ignored_bases valid) sets the entry of the class's qualified
\* name to its kept bases' qualified names followed by force_depends and
\* leaves every other entry as it was; any other step leaves the hierarchy
\* unchanged.
C6_Hierarchy ==
    [][ClassStep =>
        LET d == Head(header)
            q == QualName(d.cls)
        IN  IF ~Skipped(d) /\ EnumsHooked(d) /\ InvalidBases(d) = <<>>
            THEN /\ KeySet(class_hierarchy') = KeySet(class_hierarchy) \cup {q}
                 /\ Len(class_hierarchy') = Cardinality(KeySet(class_hierarchy'))
                 /\ DictGet(class_hierarchy', q) = ExpectedEntry(d)
                 /\ \A k \in KeySet(class_hierarchy) \ {q} :
                       DictGet(class_hierarchy', k) = DictGet(class_hierarchy, k)
            ELSE class_hierarchy' = class_hierarchy]_vars

\* two classes are in the hierarchy, the earlier one with a remapped base, a
\* qualified base and a forced dependency
C6_Witness ==
    /\ header = <<>> /\ raised = NoError
    /\ Len(class_hierarchy) = 2
    /\ class_hierarchy[1][2] =
          << <<"q", ":", ":", "X">>, <<"m", ":", ":", "Y">>, <<"n", ":", ":", "D">> >>
    /\ class_hierarchy[2][1] = QualName(decl)

(***************************************************************************)
(* Failing methods, checked under SpecCls.                                 *)
(***************************************************************************)
\* the methods class_hook gives to _function_hook, in its order, each as
\* <<access, position>>
BoundMethods(d) ==
    LET sel(access) ==
            SelectSeq([k \in 1..Len(d.cls.methods[access]) |-> <<access, k>>],
                      LAMBDA e : /\ ~Excluded(d.cls.methods[access][e[2]].fn, ClsKey(d.cls))
                                 /\ ~d.cls.methods[access][e[2]].data.ignore)
    IN  sel("public") \o sel("protected")

\* what _function_hook raises on the method at e
MethodError(d, e) ==
    _function_hook(rawdata, {}, d.cls.methods[e[1]][e[2]].fn,
                   d.cls.methods[e[1]][e[2]].data, e[1] # "public").raised

\* C7: when _function_hook fails on a method, class_hook raises the HookError
\* with the path cls_key::name of the first such method and that method's
\* error as cause; the class is not finished and no later method is hooked.
\* A HookError is raised in no other case, and a class that completes has
\* every one of these methods hooked.
C7_HookError ==
    [][(ClassStep /\ ~Skipped(Head(header)) /\ EnumsHooked(Head(header))
        /\ InvalidBases(Head(header)) = <<>>) =>
        LET d == Head(header)
            bm == BoundMethods(d)
            failing == SelectSeq([k \in 1..Len(bm) |-> k],
                                 LAMBDA k : MethodError(d, bm[k]) # NoError)
            hooked(e) == "x_name" \in DOMAIN decl'.methods[e[1]][e[2]].fn
        IN  IF failing = <<>>
            THEN /\ raised' = NoError
                 /\ \A k \in DOMAIN bm : hooked(bm[k])
            ELSE /\ raised' = [type |-> "HookError",
                               path |-> ClsKey(d.cls) \o ColonColon
                                        \o d.cls.methods[bm[failing[1]][1]][bm[failing[1]][2]].fn.name,
                               cause |-> MethodError(d, bm[failing[1]])]
                 /\ "x_has_trampoline" \notin DOMAIN decl'
                 /\ \A k \in DOMAIN bm : hooked(bm[k]) <=> k < failing[1]]_vars

\* the first of two public methods failed: the HookError names it, and the
\* second, a method that would be bound, was not hooked
C7_Witness ==
    /\ Processed /\ decl.kind = "class"
    /\ raised.type = "HookError"
    /\ raised.path = <<"A", ":", ":", "P", "u", "t">>
    /\ raised.cause.type = "ValueError"
    /\ Len(decl.methods.public) = 2
    /\ decl.methods.public[2].fn.name = <<"R", "u", "n">>
    /\ "x_name" \notin DOMAIN decl.methods.public[2].fn
    /\ "x_has_trampoline" \notin DOMAIN decl

(***************************************************************************)
(* Properties of _set_name, checked under SpecSetName.                     *)
(***************************************************************************)
\* the positions of the prefixes the name starts with
Matching(name, sp) ==
    {k \in DOMAIN sp : Len(sp[k]) <= Len(name) /\ SubSeq(name, 1, Len(sp[k])) = sp[k]}

\* the first of them
FirstMatching(name, sp) ==
    CHOOSE k \in Matching(name, sp) : \A j \in Matching(name, sp) : k <= j

\* C11: with a rename the resolved name is the rename, whatever the raw name
\* and the prefixes; without one, the first prefix of the list that the raw
\* name starts with is removed, once, and nothing more; when no prefix
\* matches the raw name is the result.
C11_SetName ==
    (Processed /\ decl.kind = "header") =>
        /\ raised = NoError
        /\ \A k \in DOMAIN decl.enums :
              LET en == decl.enums[k].en
                  rename == decl.enums[k].data.rename
                  sp == rawdata.strip_prefixes
              IN  /\ "x_name" \in DOMAIN en
                  /\ IF rename # <<>> THEN en.x_name = rename
                     ELSE IF Matching(en.name, sp) = {} THEN en.x_name = en.name
                     ELSE sp[FirstMatching(en.name, sp)] \o en.x_name = en.name

\* the prefixes are H, HA and the name HHA: the first match, H, was removed
\* and neither the longer HA nor a second H
C11_Witness ==
    /\ Processed /\ decl.kind = "header"
    /\ rawdata.strip_prefixes = << <<"H">>, <<"H", "A">> >>
    /\ decl.enums[1].data.rename = <<>>
    /\ decl.enums[1].en.name = <<"H", "H", "A">>
    /\ decl.enums[1].en.x_name = <<"H", "A">>

(***************************************************************************)
(* Properties of the method loop of class_hook, checked under SpecMeth.    *)
(***************************************************************************)
\* the method at position k of a section of the processed class
MethodAt(access, k) == decl.methods[access][k]

\* _function_hook has classified the method: it has its exposed name and its
\* return list
MethodClassified(m) == "x_name" \in DOMAIN m.fn \/ "x_rets" \in DOMAIN m.fn

\* operators, destructors and copy constructors
ExcludedKind(m) ==
    \/ Get(m.fn, "operator", FALSE)
    \/ Get(m.fn, "destructor", FALSE)
    \/ /\ Get(m.fn, "constructor", FALSE)
       /\ m.fn.parameters # <<>>
       /\ m.fn.parameters[1].class = Some(<<"n", ":", ":", "A">>)

\* the exposed name before any marker: the camel-cased name
Unmarked(m) ==
    IF IsUpper(Take(m.fn.name, 2)) THEN m.fn.name
    ELSE <<LowerChar(m.fn.name[1])>> \o Drop(m.fn.name, 1)

\* the part of the statement about the methods never classified: excluded
\* kinds are marked ignored when the class completes, and neither they nor
\* private methods are ever classified
NeverClassified ==
    \A access \in {"public", "protected", "private"} :
        \A k \in DOMAIN decl.methods[access] :
            /\ (ExcludedKind(MethodAt(access, k)) /\ raised = NoError) =>
                  /\ "data" \in DOMAIN MethodAt(access, k).fn
                  /\ MethodAt(access, k).fn.data.ignore
            /\ (ExcludedKind(MethodAt(access, k)) \/ access = "private") =>
                  ~MethodClassified(MethodAt(access, k))

PropertyAt(access, k) == decl.properties[access][k].prop

\* bound: not marked ignored
Bound(v) == "data" \in DOMAIN v /\ ~v.data.ignore

\* the types of the bound properties of the processed class
BoundTypes ==
    UNION {{PropertyAt(access, k).raw_type :
               k \in {j \in DOMAIN decl.properties[access] : Bound(PropertyAt(access, j))}} :
           access \in {"public", "protected", "private"}}

\* C13: in a class whose processing completes, a property is bound (not
\* marked ignored) exactly when it is public, or protected in a class with
\* x_has_trampoline; private properties are marked ignored; and only bound
\* properties have x_name and x_readonly and their type in the registry.
C13_AsStated ==
    (Processed /\ decl.kind = "class" /\ raised = NoError) =>
        /\ \A access \in {"public", "protected", "private"} :
              \A k \in DOMAIN decl.properties[access] :
                 /\ Bound(PropertyAt(access, k)) <=>
                       \/ access = "public"
                       \/ access = "protected" /\ decl.x_has_trampoline
                 /\ access = "private" =>
                       /\ "data" \in DOMAIN PropertyAt(access, k)
                       /\ PropertyAt(access, k).data.ignore
                 /\ ("x_name" \in DOMAIN PropertyAt(access, k)
                        \/ "x_readonly" \in DOMAIN PropertyAt(access, k)) =>
                       Bound(PropertyAt(access, k))
        /\ types \subseteq BoundTypes

====
